---- MODULE Spec2Model ----
(***************************************************************************)
(* processtransformer/models/transformer.py: the two custom layers         *)
(* (TokenAndPositionEmbedding, TransformerBlock) and the three builders    *)
(* that wire them into named Keras functional graphs.                      *)
(*                                                                         *)
(* A tensor is a record [shape, v]: shape is the full shape, batch axis    *)
(* first (None for the unknown batch size of a graph input), v is either   *)
(* <<"Const", data>> (nested sequences of integers) or the dataflow term   *)
(* of the framework operation that produced it.  Learned weights are       *)
(* abstracted to one integer per weight-bearing sublayer; the two          *)
(* embedding tables are expanded to concrete integer rows.                 *)
(***************************************************************************)
EXTENDS Integers, Sequences, FiniteSets, TLC

VARIABLES
    models,     \* builder -> the graph it returned last, or NoModel
    args,       \* builder -> the arguments of that call
    params,     \* builder -> the weights of that graph, by sublayer
    committed,  \* builder -> the weights as built or as last stepped
    last,       \* the last call of a graph or of a layer, and its result
    rep         \* whether that call repeated the one before, and agreed

vars == <<models, args, params, committed, last, rep>>

----------------------------------------------------------------------------
(* Bounds of the model *)

MaxLen == 2

(* Program constants *)

DefaultEmbedDim == 36
DefaultNumHeads == 4
DefaultFFDim == 64
DefaultOutputDim == 1
TimeFeatures == 3
TimeDenseUnits == 32
ActivityHiddenUnits == 64
TimeHiddenUnits == 128

DefaultRate == "0.1"
HeadRate == "0.1"
Epsilon == "1e-6"

None == 0 - 1

Builders == {"get_next_activity_model", "get_next_time_model",
             "get_remaining_time_model"}

NoModel == [name |-> "none"]
NoCall == [kind |-> "none"]

----------------------------------------------------------------------------
(* Framework primitives, as the source uses them *)

Tensor(shape, v) == [shape |-> shape, v |-> v]

Const(shape, data) == Tensor(shape, <<"Const", data>>)

IsConst(t) == t.v[1] = "Const"

LastDim(shape) == shape[Len(shape)]

Front(shape) == SubSeq(shape, 1, Len(shape) - 1)

Max(a, b) == IF a >= b THEN a ELSE b

\* tf.range(start, limit, delta = 1): the rank-1 tensor <<start, ..., limit-1>>
Range(start, limit) ==
    Const(<<Max(limit - start, 0)>>,
          [i \in 1..Max(limit - start, 0) |-> start + i - 1])

\* Broadcasting of two shapes aligned on their last axes; <<>> when they are
\* incompatible (the framework raises).
RECURSIVE BroadcastShape(_, _)
BroadcastShape(a, b) ==
    IF Len(a) < Len(b) THEN BroadcastShape(b, a)
    ELSE IF Len(b) = 0 THEN a
    ELSE LET da == LastDim(a)
             db == LastDim(b)
             rest == BroadcastShape(Front(a), Front(b))
         IN IF da # db /\ da # 1 /\ db # 1 THEN <<>>
            ELSE IF Len(a) > 1 /\ rest = <<>> THEN <<>>
            ELSE Append(rest, IF da = 1 THEN db ELSE da)

\* Elementwise sum of nested integer sequences of ranks ra >= rb, the second
\* broadcast over the leading axes of the first.
RECURSIVE AddData(_, _, _, _)
AddData(a, b, ra, rb) ==
    IF ra = 0 THEN a + b
    ELSE IF ra > rb THEN [i \in DOMAIN a |-> AddData(a[i], b, ra - 1, rb)]
    ELSE [i \in DOMAIN a |-> AddData(a[i], b[i], ra - 1, rb - 1)]

\* a + b on tensors: computed when both operands are concrete and of
\* compatible shapes, otherwise the term recording both operand shapes.
Add(a, b) ==
    LET shape == BroadcastShape(a.shape, b.shape)
    IN IF IsConst(a) /\ IsConst(b) /\ shape = a.shape
       THEN Const(shape, AddData(a.v[2], b.v[2], Len(a.shape), Len(b.shape)))
       ELSE Tensor(shape, <<"Add", a.shape, b.shape, a.v, b.v>>)

\* The rows of a learned embedding table of weight value w: rows 0..rows-1,
\* each a vector of dim integers.
EmbeddingTable(name, w, rows, dim) ==
    [r \in 0..(rows - 1) |->
        [k \in 1..dim |->
            IF name = "token_emb" THEN 10 * (r + 1) + k + w
            ELSE 1000 * (r + 1) + 100 * k + w]]

\* One row of a table; an index outside the table is undefined behaviour of
\* the build: device "CPU" raises (the caller checks InRange first), device
\* "GPU" yields a row of zeros.
EmbeddingRow(table, dim, idx) ==
    IF idx \in DOMAIN table THEN table[idx] ELSE [k \in 1..dim |-> 0]

RECURSIVE Gather(_, _, _, _)
Gather(table, dim, data, rank) ==
    IF rank = 0 THEN EmbeddingRow(table, dim, data)
    ELSE [i \in DOMAIN data |-> Gather(table, dim, data[i], rank - 1)]

\* layers.Embedding(input_dim = rows, output_dim = dim) applied to ids
Embedding(name, w, rows, dim, ids) ==
    IF IsConst(ids)
    THEN Const(Append(ids.shape, dim),
               Gather(EmbeddingTable(name, w, rows, dim), dim, ids.v[2],
                      Len(ids.shape)))
    ELSE Tensor(Append(ids.shape, dim),
                <<"Embedding", name, w, rows, dim, ids.v>>)

RECURSIVE Flatten(_, _)
Flatten(data, rank) ==
    IF rank = 0 THEN {data}
    ELSE UNION {Flatten(data[i], rank - 1) : i \in DOMAIN data}

\* The indices a lookup reads
Indices(ids) == IF IsConst(ids) THEN Flatten(ids.v[2], Len(ids.shape)) ELSE {}

InRange(rows, ids) == \A i \in Indices(ids) : i \in 0..(rows - 1)

\* layers.Dense(units, activation): maps the last axis to units
Dense(name, units, activation, w, x) ==
    Tensor(Append(Front(x.shape), units),
           <<"Dense", name, units, activation, w, x.v>>)

\* Mutant: dropout that ignores the training flag
Dropout_always(name, rate, training, rng, x) ==
    Tensor(x.shape, <<"Dropout", name, rate, rng, x.v>>)

\* layers.Dropout(rate)(x, training): the identity outside training, a mask
\* drawn from the random generator rng in training
Dropout(name, rate, training, rng, x) ==
    IF training
    THEN Tensor(x.shape, <<"Dropout", name, rate, rng, x.v>>)
    ELSE x

\* layers.LayerNormalization(epsilon): keeps the shape
LayerNormalization(name, epsilon, w, x) ==
    Tensor(x.shape, <<"LayerNormalization", name, epsilon, w, x.v>>)

\* layers.MultiHeadAttention(num_heads, key_dim)(query, value): the output
\* is projected back to the query's shape
MultiHeadAttention(name, num_heads, key_dim, w, query, value) ==
    Tensor(query.shape,
           <<"MultiHeadAttention", name, num_heads, key_dim, w,
             query.v, value.v>>)

\* layers.GlobalAveragePooling1D(): (batch, steps, features) -> (batch, features)
GlobalAveragePooling1D(x) ==
    Tensor(<<x.shape[1], x.shape[3]>>, <<"GlobalAveragePooling1D", x.v>>)

\* layers.Concatenate(): along the last axis, in the order given
Concatenate(a, b) ==
    Tensor(Append(Front(a.shape), LastDim(a.shape) + LastDim(b.shape)),
           <<"Concatenate", a.v, b.v>>)

\* layers.Input(shape): a graph input of unknown batch size
Input(shape) == [kind |-> "Input", shape |-> <<None>> \o shape]

----------------------------------------------------------------------------
(* The two custom layers *)

\* TokenAndPositionEmbedding.__init__
TokenAndPositionEmbedding(maxlen, vocab_size, embed_dim) ==
    [kind |-> "TokenAndPositionEmbedding", maxlen |-> maxlen,
     vocab_size |-> vocab_size, embed_dim |-> embed_dim]

\* Mutant: the positions taken from the maxlen the layer was constructed with
Positions_maxlen(self, x) == Range(0, self.maxlen)

\* maxlen = tf.shape(x)[-1]; positions = tf.range(start=0, limit=maxlen, delta=1)
Positions(self, x) == Range(0, LastDim(x.shape))

\* Mutant: the positions are looked up and never added
TokenAndPositionEmbedding_call_no_positions(self, P, x) ==
    Embedding("token_emb", P["token_emb"], self.vocab_size, self.embed_dim, x)

\* TokenAndPositionEmbedding.call
TokenAndPositionEmbedding_call(self, P, x) ==
    LET positions == Embedding("pos_emb", P["pos_emb"], self.maxlen,
                               self.embed_dim, Positions(self, x))
        x_emb == Embedding("token_emb", P["token_emb"], self.vocab_size,
                           self.embed_dim, x)
    IN Add(x_emb, positions)

\* TransformerBlock.__init__
TransformerBlock(embed_dim, num_heads, ff_dim, rate) ==
    [kind |-> "TransformerBlock", embed_dim |-> embed_dim,
     num_heads |-> num_heads, ff_dim |-> ff_dim, rate |-> rate,
     att |-> [num_heads |-> num_heads, key_dim |-> embed_dim],
     ffn |-> << [units |-> ff_dim, activation |-> "relu"],
                [units |-> embed_dim, activation |-> "linear"] >>,
     layernorm_a |-> [epsilon |-> Epsilon],
     layernorm_b |-> [epsilon |-> Epsilon],
     dropout_a |-> [rate |-> rate],
     dropout_b |-> [rate |-> rate]]

\* Mutant: the feed-forward sublayer without its projection back to embed_dim
ffn_no_project(self, P, x) ==
    Dense("ffn_0", self.ffn[1].units, self.ffn[1].activation, P["ffn_0"], x)

\* self.ffn(x): the Sequential of the two dense layers
ffn(self, P, x) ==
    Dense("ffn_1", self.ffn[2].units, self.ffn[2].activation, P["ffn_1"],
          Dense("ffn_0", self.ffn[1].units, self.ffn[1].activation,
                P["ffn_0"], x))

\* Mutant: the second residual adds the block input
TransformerBlock_steps_residual_inputs(self, P, inputs, training, rng) ==
    LET attn_output == MultiHeadAttention("att", self.att.num_heads,
                                          self.att.key_dim, P["att"],
                                          inputs, inputs)
        attn_dropped == Dropout("dropout_a", self.dropout_a.rate, training,
                                rng, attn_output)
        out_a == LayerNormalization("layernorm_a", self.layernorm_a.epsilon,
                                    P["layernorm_a"],
                                    Add(inputs, attn_dropped))
        ffn_output == ffn(self, P, out_a)
        ffn_dropped == Dropout("dropout_b", self.dropout_b.rate, training,
                               rng, ffn_output)
    IN [attn_output |-> attn_output, attn_dropped |-> attn_dropped,
        out_a |-> out_a, ffn_output |-> ffn_output,
        ffn_dropped |-> ffn_dropped,
        result |-> LayerNormalization("layernorm_b",
                                      self.layernorm_b.epsilon,
                                      P["layernorm_b"],
                                      Add(inputs, ffn_dropped))]

\* The intermediate values of TransformerBlock.call, by the source's names
TransformerBlock_steps(self, P, inputs, training, rng) ==
    LET attn_output == MultiHeadAttention("att", self.att.num_heads,
                                          self.att.key_dim, P["att"],
                                          inputs, inputs)
        attn_dropped == Dropout("dropout_a", self.dropout_a.rate, training,
                                rng, attn_output)
        out_a == LayerNormalization("layernorm_a", self.layernorm_a.epsilon,
                                    P["layernorm_a"],
                                    Add(inputs, attn_dropped))
        ffn_output == ffn(self, P, out_a)
        ffn_dropped == Dropout("dropout_b", self.dropout_b.rate, training,
                               rng, ffn_output)
    IN [attn_output |-> attn_output, attn_dropped |-> attn_dropped,
        out_a |-> out_a, ffn_output |-> ffn_output,
        ffn_dropped |-> ffn_dropped,
        result |-> LayerNormalization("layernorm_b",
                                      self.layernorm_b.epsilon,
                                      P["layernorm_b"],
                                      Add(out_a, ffn_dropped))]

\* TransformerBlock.call
TransformerBlock_call(self, P, inputs, training, rng) ==
    TransformerBlock_steps(self, P, inputs, training, rng).result

----------------------------------------------------------------------------
(* Functional graphs *)

DropoutLayer(name, rate) == [kind |-> "Dropout", name |-> name, rate |-> rate]

DenseLayer(name, units, activation) ==
    [kind |-> "Dense", name |-> name, units |-> units,
     activation |-> activation]

PoolingLayer == [kind |-> "GlobalAveragePooling1D"]

ConcatenateLayer == [kind |-> "Concatenate"]

\* The weight-bearing sublayers of a graph
ParamNames(hasTime) ==
    {"token_emb", "pos_emb", "att", "ffn_0", "ffn_1", "layernorm_a",
     "layernorm_b", "dense", "dense_1"}
    \cup (IF hasTime THEN {"dense_2"} ELSE {})

\* Weights are created when a layer is first called, which for a graph is at
\* its construction; 0 stands for the values the initializers give.
InitParams(hasTime) == [n \in ParamNames(hasTime) |-> 0]

\* layer(inputs): what a layer computes from its inbound tensors
LayerCall(layer, P, ins, training, rng) ==
    CASE layer.kind = "TokenAndPositionEmbedding" ->
            TokenAndPositionEmbedding_call(layer, P, ins[1])
      [] layer.kind = "TransformerBlock" ->
            TransformerBlock_call(layer, P, ins[1], training, rng)
      [] layer.kind = "GlobalAveragePooling1D" ->
            GlobalAveragePooling1D(ins[1])
      [] layer.kind = "Dropout" ->
            Dropout(layer.name, layer.rate, training, rng, ins[1])
      [] layer.kind = "Dense" ->
            Dense(layer.name, layer.units, layer.activation, P[layer.name],
                  ins[1])
      [] layer.kind = "Concatenate" -> Concatenate(ins[1], ins[2])

\* The symbolic tensor of node i of a graph under construction
Symbolic(g, i) == Tensor(g[i].shape, <<"Node", i>>)

\* x = layer(...)(inbound): appends the node, its shape inferred by running
\* the layer on the symbolic inbound tensors
Connect(g, layer, inbound, P) ==
    Append(g, [layer |-> layer, inbound |-> inbound,
               shape |-> LayerCall(layer, P,
                                   [j \in DOMAIN inbound |->
                                        Symbolic(g, inbound[j])],
                                   FALSE, 0).shape])

InputNode(input) == [layer |-> input, inbound |-> <<>>, shape |-> input.shape]

\* Mutant: only the first input is passed to the graph
Model_first_input(inputs, outputs, name, g) ==
    [name |-> name, inputs |-> <<inputs[1]>>, outputs |-> outputs, nodes |-> g]

\* tf.keras.Model(inputs, outputs, name)
Model(inputs, outputs, name, g) ==
    [name |-> name, inputs |-> inputs, outputs |-> outputs, nodes |-> g]

\* Mutant: the output layer sized by the vocabulary
get_next_activity_model_vocab_out(max_case_length, vocab_size, output_dim, embed_dim, num_heads, ff_dim, P) ==
    LET inputs == 1
        g1 == <<InputNode(Input(<<max_case_length>>))>>
        g2 == Connect(g1, TokenAndPositionEmbedding(max_case_length,
                                                    vocab_size, embed_dim),
                      <<inputs>>, P)
        g3 == Connect(g2, TransformerBlock(embed_dim, num_heads, ff_dim,
                                           DefaultRate), <<2>>, P)
        g4 == Connect(g3, PoolingLayer, <<3>>, P)
        g5 == Connect(g4, DropoutLayer("dropout", HeadRate), <<4>>, P)
        g6 == Connect(g5, DenseLayer("dense", ActivityHiddenUnits, "relu"),
                      <<5>>, P)
        g7 == Connect(g6, DropoutLayer("dropout_1", HeadRate), <<6>>, P)
        g8 == Connect(g7, DenseLayer("dense_1", vocab_size, "linear"),
                      <<7>>, P)
    IN Model(<<inputs>>, 8, "next_activity_transformer", g8)

\* get_next_activity_model
get_next_activity_model(max_case_length, vocab_size, output_dim, embed_dim, num_heads, ff_dim, P) ==
    LET inputs == 1
        g1 == <<InputNode(Input(<<max_case_length>>))>>
        g2 == Connect(g1, TokenAndPositionEmbedding(max_case_length,
                                                    vocab_size, embed_dim),
                      <<inputs>>, P)
        g3 == Connect(g2, TransformerBlock(embed_dim, num_heads, ff_dim,
                                           DefaultRate), <<2>>, P)
        g4 == Connect(g3, PoolingLayer, <<3>>, P)
        g5 == Connect(g4, DropoutLayer("dropout", HeadRate), <<4>>, P)
        g6 == Connect(g5, DenseLayer("dense", ActivityHiddenUnits, "relu"),
                      <<5>>, P)
        g7 == Connect(g6, DropoutLayer("dropout_1", HeadRate), <<6>>, P)
        g8 == Connect(g7, DenseLayer("dense_1", output_dim, "linear"),
                      <<7>>, P)
    IN Model(<<inputs>>, 8, "next_activity_transformer", g8)

\* Mutant: the time features concatenated before the pooled sequence
TimeModelGraph_time_first(max_case_length, vocab_size, output_dim, embed_dim, num_heads, ff_dim, P, name) ==
    LET inputs == 1
        time_inputs == 2
        g2 == <<InputNode(Input(<<max_case_length>>)),
                InputNode(Input(<<TimeFeatures>>))>>
        g3 == Connect(g2, TokenAndPositionEmbedding(max_case_length,
                                                    vocab_size, embed_dim),
                      <<inputs>>, P)
        g4 == Connect(g3, TransformerBlock(embed_dim, num_heads, ff_dim,
                                           DefaultRate), <<3>>, P)
        g5 == Connect(g4, PoolingLayer, <<4>>, P)
        g6 == Connect(g5, DenseLayer("dense", TimeDenseUnits, "relu"),
                      <<time_inputs>>, P)
        g7 == Connect(g6, ConcatenateLayer, <<6, 5>>, P)
        g8 == Connect(g7, DropoutLayer("dropout", HeadRate), <<7>>, P)
        g9 == Connect(g8, DenseLayer("dense_1", TimeHiddenUnits, "relu"),
                      <<8>>, P)
        g10 == Connect(g9, DropoutLayer("dropout_1", HeadRate), <<9>>, P)
        g11 == Connect(g10, DenseLayer("dense_2", output_dim, "linear"),
                       <<10>>, P)
    IN Model(<<inputs, time_inputs>>, 11, name, g11)

\* The body shared, line for line, by the two time builders
TimeModelGraph(max_case_length, vocab_size, output_dim, embed_dim, num_heads, ff_dim, P, name) ==
    LET inputs == 1
        time_inputs == 2
        g2 == <<InputNode(Input(<<max_case_length>>)),
                InputNode(Input(<<TimeFeatures>>))>>
        g3 == Connect(g2, TokenAndPositionEmbedding(max_case_length,
                                                    vocab_size, embed_dim),
                      <<inputs>>, P)
        g4 == Connect(g3, TransformerBlock(embed_dim, num_heads, ff_dim,
                                           DefaultRate), <<3>>, P)
        g5 == Connect(g4, PoolingLayer, <<4>>, P)
        g6 == Connect(g5, DenseLayer("dense", TimeDenseUnits, "relu"),
                      <<time_inputs>>, P)
        g7 == Connect(g6, ConcatenateLayer, <<5, 6>>, P)
        g8 == Connect(g7, DropoutLayer("dropout", HeadRate), <<7>>, P)
        g9 == Connect(g8, DenseLayer("dense_1", TimeHiddenUnits, "relu"),
                      <<8>>, P)
        g10 == Connect(g9, DropoutLayer("dropout_1", HeadRate), <<9>>, P)
        g11 == Connect(g10, DenseLayer("dense_2", output_dim, "linear"),
                       <<10>>, P)
    IN Model(<<inputs, time_inputs>>, 11, name, g11)

\* get_next_time_model
get_next_time_model(max_case_length, vocab_size, output_dim, embed_dim, num_heads, ff_dim, P) ==
    TimeModelGraph(max_case_length, vocab_size, output_dim, embed_dim,
                   num_heads, ff_dim, P, "next_time_transformer")

\* Mutant: the name copied from get_next_time_model
get_remaining_time_model_copied(max_case_length, vocab_size, output_dim, embed_dim, num_heads, ff_dim, P) ==
    TimeModelGraph(max_case_length, vocab_size, output_dim, embed_dim,
                   num_heads, ff_dim, P, "next_time_transformer")

\* get_remaining_time_model
get_remaining_time_model(max_case_length, vocab_size, output_dim, embed_dim, num_heads, ff_dim, P) ==
    TimeModelGraph(max_case_length, vocab_size, output_dim, embed_dim,
                   num_heads, ff_dim, P, "remaining_time_transformer")

\* The value of node i when the graph is run on the input tensors xs
RECURSIVE NodeValue(_, _, _, _, _, _)
NodeValue(m, P, xs, training, rng, i) ==
    LET node == m.nodes[i]
    IN IF node.layer.kind = "Input"
       THEN xs[CHOOSE k \in DOMAIN m.inputs : m.inputs[k] = i]
       ELSE LayerCall(node.layer, P,
                      [j \in DOMAIN node.inbound |->
                           NodeValue(m, P, xs, training, rng,
                                     node.inbound[j])],
                      training, rng)

\* model(xs, training): the forward pass
Model_call(m, P, xs, training, rng) ==
    NodeValue(m, P, xs, training, rng, m.outputs)

----------------------------------------------------------------------------
(* Inputs of the operations *)

Weights == {0, 1}
Rngs == {0, 1}
Devices == {"CPU", "GPU"}
Rates == {"0.1", "0.5"}
BatchSizes == {1, 2}
VocabSizes == {2, 3}
OutputDims == {DefaultOutputDim, 5}
TimeVectors == {<<1, 2, 3>>}

\* embed_dim, num_heads, ff_dim: the defaults, or a small supplied triple
Hypers == {<<DefaultEmbedDim, DefaultNumHeads, DefaultFFDim>>, <<2, 1, 3>>}

\* The call max_case_length=10, vocab_size=50, output_dim=5 with the defaults
ExampleArgs == <<10, 50, 5, DefaultEmbedDim, DefaultNumHeads, DefaultFFDim>>

\* Argument tuples <<max_case_length, vocab_size, output_dim, embed_dim,
\* num_heads, ff_dim>> of a builder
FullArgs ==
    {<<L, V, O, h[1], h[2], h[3]>> :
        L \in 1..MaxLen, V \in {3}, O \in OutputDims, h \in Hypers}
    \cup {ExampleArgs}

\* The graphs that are run: the longest case length, small widths
RunArgs == {<<MaxLen, 2, 2, 2, 1, 3>>}

HasTime(b) == b # "get_next_activity_model"

\* Batches of B token sequences of length L over the vocabulary 0..V-1:
\* every sequence s, followed in the batch by s shifted by 1, 2, ...
Batches(B, L, V) ==
    {Const(<<B, L>>, [j \in 1..B |-> [i \in 1..L |-> (s[i] + j - 1) % V]]) :
        s \in [1..L -> 0..(V - 1)]}

\* Two token sequences of length L: all zero, and alternating 0, 1
TokenBatches(L) ==
    {Const(<<1, L>>, <<[i \in 1..L |-> 0]>>),
     Const(<<1, L>>, <<[i \in 1..L |-> (i - 1) % 2]>>)}

TimeBatches == {Const(<<1, TimeFeatures>>, <<t>>) : t \in TimeVectors}

\* The framework's check of a call's input against the graph's Input shape
Compatible(spec, shape) ==
    /\ Len(spec) = Len(shape)
    /\ \A i \in DOMAIN spec : spec[i] = None \/ spec[i] = shape[i]

EmbeddingLayerOf(m) == m.nodes[Len(m.inputs) + 1].layer

RaisedTensor == Tensor(<<>>, <<"InvalidArgumentError">>)

----------------------------------------------------------------------------
(* State and operations *)

Init ==
    /\ models = [b \in Builders |-> NoModel]
    /\ args = [b \in Builders |-> <<>>]
    /\ params = [b \in Builders |-> <<>>]
    /\ committed = [b \in Builders |-> <<>>]
    /\ last = NoCall
    /\ rep = "none"

\* model = builder(*args): the variable of builder b now holds the new graph
Build(b, a) ==
    LET P == InitParams(HasTime(b))
        m == CASE b = "get_next_activity_model" ->
                    get_next_activity_model(a[1], a[2], a[3], a[4], a[5],
                                            a[6], P)
               [] b = "get_next_time_model" ->
                    get_next_time_model(a[1], a[2], a[3], a[4], a[5], a[6], P)
               [] b = "get_remaining_time_model" ->
                    get_remaining_time_model(a[1], a[2], a[3], a[4], a[5],
                                             a[6], P)
    IN /\ models' = [models EXCEPT ![b] = m]
       /\ args' = [args EXCEPT ![b] = a]
       /\ params' = [params EXCEPT ![b] = P]
       /\ committed' = [committed EXCEPT ![b] = P]
       /\ UNCHANGED <<last, rep>>

BuildNextActivity(Args) ==
    \E a \in Args : Build("get_next_activity_model", a)

BuildNextTime(Args) ==
    \E a \in Args : Build("get_next_time_model", a)

BuildRemainingTime(Args) ==
    \E a \in Args : Build("get_remaining_time_model", a)

\* Mutant: a call in training mode updates the weights
ParamsAfterCall_trains(P, training) ==
    IF training THEN [n \in DOMAIN P |-> 1 - P[n]] ELSE P

\* The weights after a call of a layer or a graph: call assigns none
ParamsAfterCall(P, training) == P

\* The training optimizer's step on the graph of builder b (the framework's;
\* the repository has no training loop)
OptimizerStep(b) ==
    /\ models[b] # NoModel
    /\ \E w \in Weights :
        /\ w # params[b]["token_emb"]
        /\ params' = [params EXCEPT ![b] = [n \in DOMAIN params[b] |-> w]]
        /\ committed' = [committed EXCEPT ![b] = [n \in DOMAIN params[b] |-> w]]
    /\ UNCHANGED <<models, args, last, rep>>

\* model(xs, training = training) on the graph of builder b
Forward(b, xs, training, rng) ==
    LET m == models[b]
        P == params[b]
        out == Model_call(m, P, xs, training, rng)
        again == /\ last.kind = "forward"
                 /\ last.builder = b
                 /\ last.model = m
                 /\ last.P = P
                 /\ last.xs = xs
                 /\ last.training = training
    IN /\ m # NoModel
       /\ Len(xs) = Len(m.inputs)
       /\ \A k \in DOMAIN xs :
            Compatible(m.nodes[m.inputs[k]].shape, xs[k].shape)
       /\ last' = [kind |-> "forward", builder |-> b, model |-> m, P |-> P,
                   xs |-> xs, training |-> training, rng |-> rng,
                   prev_rng |-> IF again THEN last.rng ELSE rng,
                   rows |-> EmbeddingLayerOf(m).maxlen,
                   lookups |-> Indices(Positions(EmbeddingLayerOf(m), xs[1])),
                   out |-> out]
       /\ rep' = IF ~again THEN "none"
                 ELSE IF out = last.out THEN "same" ELSE "differ"
       /\ params' = [params EXCEPT ![b] = ParamsAfterCall(P, training)]
       /\ UNCHANGED <<models, args, committed>>

ForwardAny ==
    \E b \in Builders, L \in 1..MaxLen, training \in BOOLEAN, rng \in Rngs :
        \E x \in TokenBatches(L) :
            IF HasTime(b)
            THEN \E t \in TimeBatches : Forward(b, <<x, t>>, training, rng)
            ELSE Forward(b, <<x>>, training, rng)

\* layer(x) on a TokenAndPositionEmbedding layer self with weights P
EmbeddingCall(self, P, x, device) ==
    LET positions == Positions(self, x)
        raised == device = "CPU" /\ ~InRange(self.maxlen, positions)
    IN [kind |-> "embedding", self |-> self, P |-> P, x |-> x,
        device |-> device, raised |-> raised,
        rows |-> self.maxlen, lookups |-> Indices(positions),
        out |-> IF raised THEN RaisedTensor
                ELSE TokenAndPositionEmbedding_call(self, P, x)]

\* model.layers[1](x): the embedding layer of a built graph, called directly
\* on a batch of any length
CallEmbedding(b, x, device) ==
    /\ models[b] # NoModel
    /\ last' = EmbeddingCall(EmbeddingLayerOf(models[b]), params[b], x, device)
    /\ rep' = "none"
    /\ params' = [params EXCEPT ![b] = ParamsAfterCall(params[b], FALSE)]
    /\ UNCHANGED <<models, args, committed>>

CallEmbeddingAny ==
    \E b \in Builders, L \in 1..(MaxLen + 1), device \in Devices :
        \E x \in TokenBatches(L) : CallEmbedding(b, x, device)

\* The calls of a layer of its own that are still to be run: the layer as
\* constructed, its weights and the arguments of the call
PendingCalls ==
    UNION {
      {[kind |-> "pending_embedding",
        self |-> TokenAndPositionEmbedding(maxlen, V, h[1]),
        P |-> [n \in {"token_emb", "pos_emb"} |-> w], x |-> x,
        device |-> device] :
          maxlen \in 1..MaxLen, h \in Hypers, w \in Weights,
          device \in Devices,
          x \in UNION {Batches(B, L, V) :
                          B \in BatchSizes, L \in 1..(MaxLen + 1)}} :
      V \in VocabSizes}
    \cup
    {[kind |-> "pending_block",
      self |-> TransformerBlock(h[1], h[2], h[3], rate),
      P |-> [n \in {"att", "ffn_0", "ffn_1", "layernorm_a",
                    "layernorm_b"} |-> w],
      inputs |-> Tensor(<<B, L, E>>, <<"Tensor", "inputs">>),
      training |-> training, rng |-> rng] :
        h \in Hypers, rate \in Rates, w \in Weights, B \in BatchSizes,
        L \in 1..MaxLen, E \in {1, 2, DefaultEmbedDim},
        training \in BOOLEAN, rng \in Rngs}

InitLayers ==
    /\ models = [b \in Builders |-> NoModel]
    /\ args = [b \in Builders |-> <<>>]
    /\ params = [b \in Builders |-> <<>>]
    /\ committed = [b \in Builders |-> <<>>]
    /\ last \in PendingCalls
    /\ rep = "none"

\* TokenAndPositionEmbedding(maxlen, vocab_size, embed_dim)(x) on a layer of
\* its own
NewEmbeddingCall ==
    /\ last.kind = "pending_embedding"
    /\ last' = EmbeddingCall(last.self, last.P, last.x, last.device)
    /\ UNCHANGED <<models, args, params, committed, rep>>

\* TransformerBlock(embed_dim, num_heads, ff_dim, rate)(inputs, training) on
\* a layer of its own; inputs is any rank-3 tensor
NewBlockCall ==
    /\ last.kind = "pending_block"
    /\ last' = [kind |-> "block", self |-> last.self, P |-> last.P,
                inputs |-> last.inputs, training |-> last.training,
                rng |-> last.rng,
                out |-> TransformerBlock_call(last.self, last.P, last.inputs,
                                              last.training, last.rng)]
    /\ UNCHANGED <<models, args, params, committed, rep>>

----------------------------------------------------------------------------
(* Specifications *)

\* The graphs in use: builders, forward passes, optimizer steps and direct
\* calls of a graph's embedding layer
Next ==
    \/ BuildNextActivity(RunArgs)
    \/ BuildNextTime(RunArgs)
    \/ BuildRemainingTime(RunArgs)
    \/ ForwardAny
    \/ \E b \in Builders : OptimizerStep(b)
    \/ CallEmbeddingAny

Spec == Init /\ [][Next]_vars

\* The builders over every argument tuple
NextBuild ==
    \/ BuildNextActivity(FullArgs)
    \/ BuildNextTime(FullArgs)
    \/ BuildRemainingTime(FullArgs)

SpecBuild == Init /\ [][NextBuild]_vars

\* The two layers on their own
NextLayers ==
    \/ NewEmbeddingCall
    \/ NewBlockCall

SpecLayers == InitLayers /\ [][NextLayers]_vars

----------------------------------------------------------------------------
(* Properties *)

Built(b) == models[b] # NoModel

OutputShape(m) == m.nodes[m.outputs].shape

InputShape(m, k) == m.nodes[m.inputs[k]].shape

Kinds(m) == [i \in DOMAIN m.nodes |-> m.nodes[i].layer.kind]

\* C1, as stated: the final output layer of a graph is output_dim wide for
\* get_next_activity_model and 1 wide for the two time builders, whatever
\* the arguments are.
C1_TimeWidthAlwaysOne ==
    \A b \in Builders :
        Built(b) =>
            LastDim(OutputShape(models[b])) =
                IF b = "get_next_activity_model" THEN args[b][3] ELSE 1

\* C1, amended: for each of the three builders the final output layer is as
\* wide as the output_dim the call was given (which is 1 for the two time
\* builders only when the default is taken); the output is one vector per
\* batch element.
C1_WidthIsOutputDim ==
    \A b \in Builders :
        Built(b) => OutputShape(models[b]) = <<None, args[b][3]>>

C1_Witness ==
    /\ Built("get_next_time_model")
    /\ args["get_next_time_model"][3] = 5
    /\ LastDim(OutputShape(models["get_next_time_model"])) = 5
    /\ Built("get_next_activity_model")
    /\ args["get_next_activity_model"] = <<10, 50, 5, 36, 4, 64>>
    /\ InputShape(models["get_next_activity_model"], 1) = <<None, 10>>
    /\ OutputShape(models["get_next_activity_model"]) = <<None, 5>>

\* C2: get_next_activity_model returns a graph with exactly one input, of
\* width max_case_length; the two time builders return a graph with exactly
\* two inputs, the sequence input of width max_case_length first and the
\* auxiliary input of width 3 second.
C2_InputShapes ==
    \A b \in Builders :
        Built(b) =>
            LET m == models[b]
            IN /\ \A k \in DOMAIN m.inputs :
                    m.nodes[m.inputs[k]].layer.kind = "Input"
               /\ Cardinality({i \in DOMAIN m.nodes :
                                 m.nodes[i].layer.kind = "Input"})
                    = Len(m.inputs)
               /\ IF b = "get_next_activity_model"
                  THEN /\ Len(m.inputs) = 1
                       /\ InputShape(m, 1) = <<None, args[b][1]>>
                  ELSE /\ Len(m.inputs) = 2
                       /\ InputShape(m, 1) = <<None, args[b][1]>>
                       /\ InputShape(m, 2) = <<None, 3>>

C2_Witness ==
    /\ Built("get_remaining_time_model")
    /\ args["get_remaining_time_model"][1] = MaxLen
    /\ args["get_remaining_time_model"][4] = 2
    /\ Built("get_next_activity_model")
    /\ args["get_next_activity_model"][1] = 1

\* C3: TransformerBlock.call on a sequence of L vectors of size embed_dim
\* returns a tensor of the shape of its input, and both residual adds are
\* between operands of that same shape, for every num_heads, ff_dim, rate
\* and training flag.
C3_ShapePreserved ==
    (last.kind = "block" /\ LastDim(last.inputs.shape) = last.self.embed_dim)
        => LET out == last.out
               add_b == out.v[5]
               add_a == add_b[4][5]
           IN /\ out.shape = last.inputs.shape
              /\ add_b[1] = "Add"
              /\ add_b[2] = last.inputs.shape
              /\ add_b[3] = last.inputs.shape
              /\ add_a[1] = "Add"
              /\ add_a[2] = last.inputs.shape
              /\ add_a[3] = last.inputs.shape

C3_Witness ==
    /\ last.kind = "block"
    /\ last.self.embed_dim = 2
    /\ last.self.ff_dim = 3
    /\ last.self.rate = "0.5"
    /\ last.training
    /\ last.inputs.shape = <<2, MaxLen, 2>>
    /\ last.out.shape = <<2, MaxLen, 2>>

\* C4: TokenAndPositionEmbedding.call on a batch of sequences of length
\* L <= maxlen returns, for every sequence of the batch, L vectors of size
\* embed_dim, the one at position i being the elementwise sum of the token
\* table's row x[i] and the position table's row i.
C4_TokenPlusPosition ==
    (/\ last.kind = "embedding"
     /\ ~last.raised
     /\ LastDim(last.x.shape) <= last.self.maxlen)
        => LET x == last.x.v[2]
               B == last.x.shape[1]
               L == last.x.shape[2]
               E == last.self.embed_dim
               tok == EmbeddingTable("token_emb", last.P["token_emb"],
                                     last.self.vocab_size, E)
               pos == EmbeddingTable("pos_emb", last.P["pos_emb"],
                                     last.self.maxlen, E)
               data == last.out.v[2]
           IN /\ last.out.shape = <<B, L, E>>
              /\ last.out.v[1] = "Const"
              /\ DOMAIN data = 1..B
              /\ \A j \in 1..B :
                    /\ DOMAIN data[j] = 1..L
                    /\ \A i \in 1..L :
                          data[j][i] =
                              [k \in 1..E |-> tok[x[j][i]][k] + pos[i - 1][k]]

C4_Witness ==
    /\ last.kind = "embedding"
    /\ ~last.raised
    /\ last.x.shape = <<2, MaxLen>>
    /\ last.self.maxlen = MaxLen
    /\ last.self.vocab_size = 3
    /\ last.x.v[2][1][1] # last.x.v[2][2][1]
    /\ last.out.shape = <<2, MaxLen, last.self.embed_dim>>

\* The names of the dropout layers that act in a dataflow term
RECURSIVE DropoutNames(_)
DropoutNames(t) ==
    CASE t[1] = "Dropout" -> {t[2]} \cup DropoutNames(t[5])
      [] t[1] = "Dense" -> DropoutNames(t[6])
      [] t[1] = "LayerNormalization" -> DropoutNames(t[5])
      [] t[1] = "Add" -> DropoutNames(t[4]) \cup DropoutNames(t[5])
      [] t[1] = "MultiHeadAttention" ->
            DropoutNames(t[6]) \cup DropoutNames(t[7])
      [] t[1] = "GlobalAveragePooling1D" -> DropoutNames(t[2])
      [] t[1] = "Concatenate" -> DropoutNames(t[2]) \cup DropoutNames(t[3])
      [] OTHER -> {}

\* C5: outside training mode none of the four dropout layers of a graph acts
\* on the result, and a forward pass that repeats the one before (same
\* graph, weights, inputs and mode) can give a different result only in
\* training mode.
C5_InferenceDeterministic ==
    last.kind = "forward" =>
        /\ ~last.training => DropoutNames(last.out.v) = {}
        /\ rep = "differ" => last.training

C5_Witness ==
    /\ last.kind = "forward"
    /\ ~last.training
    /\ rep = "same"
    /\ last.prev_rng # last.rng
    /\ last.builder = "get_next_time_model"

\* C6: each builder applies its stages in the order embedding, one
\* transformer block, global average pooling, dropout(0.1), dense(hidden,
\* relu), dropout(0.1), dense(output, linear), hidden being 64 for
\* next-activity and 128 for the time graphs; in the time graphs the
\* 3-feature input goes through its own dense(32, relu) and is concatenated
\* after the pooled vector, before the first dropout, and reaches the output
\* by no other path.
C6_StageOrder ==
    \A b \in Builders :
        Built(b) =>
            LET m == models[b]
                n == m.nodes
            IN IF b = "get_next_activity_model"
               THEN /\ Kinds(m) = <<"Input", "TokenAndPositionEmbedding",
                                    "TransformerBlock",
                                    "GlobalAveragePooling1D", "Dropout",
                                    "Dense", "Dropout", "Dense">>
                    /\ \A i \in 2..8 : n[i].inbound = <<i - 1>>
                    /\ m.outputs = 8
                    /\ n[4].shape = <<None, args[b][4]>>
                    /\ n[5].layer.rate = "0.1"
                    /\ n[6].layer.units = 64
                    /\ n[6].layer.activation = "relu"
                    /\ n[7].layer.rate = "0.1"
                    /\ n[8].layer.units = args[b][3]
                    /\ n[8].layer.activation = "linear"
               ELSE /\ Kinds(m) = <<"Input", "Input",
                                    "TokenAndPositionEmbedding",
                                    "TransformerBlock",
                                    "GlobalAveragePooling1D", "Dense",
                                    "Concatenate", "Dropout", "Dense",
                                    "Dropout", "Dense">>
                    /\ [i \in 3..11 |-> n[i].inbound] =
                          [i \in 3..11 |->
                              CASE i = 3 -> <<1>>
                                [] i = 6 -> <<2>>
                                [] i = 7 -> <<5, 6>>
                                [] OTHER -> <<i - 1>>]
                    /\ m.outputs = 11
                    /\ n[5].shape = <<None, args[b][4]>>
                    /\ n[6].layer.units = 32
                    /\ n[6].layer.activation = "relu"
                    /\ n[7].shape = <<None, args[b][4] + 32>>
                    /\ n[8].layer.rate = "0.1"
                    /\ n[9].layer.units = 128
                    /\ n[9].layer.activation = "relu"
                    /\ n[10].layer.rate = "0.1"
                    /\ n[11].layer.units = args[b][3]
                    /\ n[11].layer.activation = "linear"

C6_Witness ==
    /\ Built("get_next_activity_model")
    /\ Built("get_next_time_model")
    /\ Built("get_remaining_time_model")
    /\ args["get_next_time_model"][4] = 36
    /\ models["get_next_time_model"].nodes[7].shape = <<None, 68>>

\* C7: each builder returns a wired graph (every layer fed by earlier nodes,
\* the output the last node) whose name is next_activity_transformer,
\* next_time_transformer or remaining_time_transformer whatever the
\* arguments are, so that graphs of different builders differ in name.
C7_Names ==
    /\ \A b \in Builders :
          Built(b) =>
              LET m == models[b]
              IN /\ m.name =
                      CASE b = "get_next_activity_model" ->
                              "next_activity_transformer"
                        [] b = "get_next_time_model" ->
                              "next_time_transformer"
                        [] b = "get_remaining_time_model" ->
                              "remaining_time_transformer"
                 /\ m.outputs = Len(m.nodes)
                 /\ \A i \in DOMAIN m.nodes :
                        /\ \A j \in DOMAIN m.nodes[i].inbound :
                              m.nodes[i].inbound[j] \in 1..(i - 1)
                        /\ m.nodes[i].inbound = <<>>
                              <=> m.nodes[i].layer.kind = "Input"
    /\ \A b1, b2 \in Builders :
          (b1 # b2 /\ Built(b1) /\ Built(b2))
              => models[b1].name # models[b2].name

C7_Witness ==
    /\ Built("get_next_activity_model")
    /\ Built("get_next_time_model")
    /\ Built("get_remaining_time_model")
    /\ args["get_next_time_model"] = args["get_remaining_time_model"]
    /\ args["get_next_time_model"] # args["get_next_activity_model"]

\* The result TransformerBlock.call is to compute from the call c, written
\* out step by step
C8_Expected(c) ==
    LET x == c.inputs.v
        s == c.inputs.shape
        P == c.P
        drop(name, t) ==
            IF c.training THEN <<"Dropout", name, c.self.rate, c.rng, t>>
            ELSE t
        att == <<"MultiHeadAttention", "att", c.self.num_heads,
                 c.self.embed_dim, P["att"], x, x>>
        out_a == <<"LayerNormalization", "layernorm_a", "1e-6",
                   P["layernorm_a"],
                   <<"Add", s, s, x, drop("dropout_a", att)>> >>
        ffn_out == <<"Dense", "ffn_1", c.self.embed_dim, "linear", P["ffn_1"],
                     <<"Dense", "ffn_0", c.self.ff_dim, "relu", P["ffn_0"],
                       out_a>> >>
    IN <<"LayerNormalization", "layernorm_b", "1e-6", P["layernorm_b"],
         <<"Add", s, s, out_a, drop("dropout_b", ffn_out)>> >>

\* C8: TransformerBlock.call computes layernorm_b(out_a + dropout_b(ffn(out_a)))
\* with out_a = layernorm_a(inputs + dropout_a(att(inputs, inputs))) and
\* ffn = dense(ff_dim, relu) then dense(embed_dim): the second residual adds
\* out_a, and the two normalizations and the two dropouts are layers of
\* their own.
C8_StepOrder ==
    (last.kind = "block" /\ LastDim(last.inputs.shape) = last.self.embed_dim)
        => last.out.v = C8_Expected(last)

C8_Witness ==
    /\ last.kind = "block"
    /\ last.training
    /\ last.self.embed_dim = 36
    /\ last.self.num_heads = 4
    /\ last.self.ff_dim = 64
    /\ last.inputs.shape = <<1, MaxLen, 36>>
    /\ last.out.v[1] = "LayerNormalization"

\* C9: the weights of a graph change only when the graph is built or its
\* optimizer steps: a forward pass in either mode, a direct call of its
\* embedding layer and the building of another graph leave all of them
\* unchanged, so they always equal their values as built or as last stepped.
C9_ParamsFrame ==
    [][/\ \A b \in Builders :
            \/ params'[b] = params[b]
            \/ OptimizerStep(b)
            \/ \E a \in RunArgs : Build(b, a)
       /\ params' = committed']_vars

C9_Witness ==
    /\ last.kind = "forward"
    /\ last.training
    /\ last.builder = "get_next_activity_model"
    /\ params["get_next_activity_model"]["att"] = 1
    /\ params["get_next_activity_model"] = committed["get_next_activity_model"]
    /\ Built("get_next_time_model")
    /\ params["get_next_time_model"]["att"] = 0

\* C10: TokenAndPositionEmbedding.call looks up the positions 0..L-1 of the
\* actual input length L, so its lookups in the position table (rows
\* 0..maxlen-1) are all in range exactly when L <= maxlen; in a forward pass
\* of a built graph L is max_case_length and every lookup is in range.
C10_PositionLookups ==
    /\ last.kind = "embedding" =>
          /\ last.lookups = 0..(LastDim(last.x.shape) - 1)
          /\ (\A i \in last.lookups : i \in 0..(last.rows - 1))
                <=> LastDim(last.x.shape) <= last.rows
    /\ last.kind = "forward" =>
          /\ last.lookups = 0..(LastDim(last.xs[1].shape) - 1)
          /\ last.rows = InputShape(last.model, 1)[2]
          /\ \A i \in last.lookups : i \in 0..(last.rows - 1)

C10_Witness ==
    /\ last.kind = "embedding"
    /\ Built("get_next_time_model")
    /\ last.rows = MaxLen
    /\ LastDim(last.x.shape) = MaxLen + 1
    /\ MaxLen \in last.lookups
    /\ last.raised

====
